---------------------------- MODULE Spec2Model ----------------------------
(***************************************************************************)
(* Model of the Kalshi client of src/clients.py: the rate-limited HTTP     *)
(* transport (KalshiHttpClient) and the streaming session with its market  *)
(* filter (KalshiWebSocketClient).                                         *)
(*                                                                         *)
(* Specifications: SpecHttp (transport calls of one caller), Spec (the      *)
(* stream session, a frame handled in one step), SpecLoop and SpecLoopFair *)
(* (the lookup of a frame in two steps, with the deadline of main.py),     *)
(* SpecConc (concurrent callers of one client), SpecPure (the pure         *)
(* functions on bounded inputs), SpecMain (the run of src/main.py).        *)
(*                                                                         *)
(* Time is an integer number of milliseconds on one clock, `now'.          *)
(* Exceptions are modelled as values: an operator that can raise returns   *)
(* the name of the exception, or reports raised = TRUE.                    *)
(***************************************************************************)
EXTENDS Integers, Sequences, FiniteSets, TLC

VARIABLES
    now,            \* the clock read by datetime.now(), in ms
    last_api_call,  \* KalshiBaseClient.last_api_call, per HTTP client instance
    starts,         \* history: per instance, the instants its calls were issued
    ends,           \* history: per instance, the instants its calls completed
    last_result,    \* per instance, the response and the outcome of its last call
    pc,             \* where connect() of the stream session is
    sock,           \* the WebSocket of the session: "none", "open", "released"
    message_id,     \* KalshiWebSocketClient.message_id
    sent,           \* history: the commands sent on the socket
    inspected,      \* KalshiWebSocketClient._inspected_market_ids
    found,          \* KalshiWebSocketClient.found_markets
    dispatched,     \* history: how many frames were handed to on_message
    deliveries,     \* history: per identifier, the dispatched ticker frames that carried it
    lookups,        \* history: per identifier, the get_market calls made for it
    failed,         \* history: the identifiers whose get_market raised
    should_find,    \* history: the identifiers whose first sighting was a match
    ended_by,       \* history: what ended the session, with the close code or the cause
    report,         \* history: the callback that told the caller of the end
    deadline,       \* src/main.py: the timeout of asyncio.wait_for has expired
    inflight,       \* the identifiers whose get_market is blocked in requests.get
    threads,        \* per concurrent caller of one client, where it is in its call
    probe,          \* the last application of a pure function: inputs and result
    main_pc         \* where main() of src/main.py is

httpVars == <<now, last_api_call, starts, ends, last_result>>

sessionVars == <<pc, sock, message_id, sent, ended_by, report>>

filterVars == <<inspected, found, dispatched, deliveries, lookups, failed,
                should_find>>

\* What only the specifications of the later sections change.
auxVars == <<deadline, inflight, threads, probe, main_pc>>

vars == <<now, last_api_call, starts, ends, last_result,
          pc, sock, message_id, sent, ended_by, report,
          inspected, found, dispatched, deliveries, lookups, failed,
          should_find, deadline, inflight, threads, probe, main_pc>>

(***************************************************************************)
(* Bounds of the model.                                                    *)
(***************************************************************************)
MaxCalls == 3       \* transport calls per client instance
MaxTime == 600      \* the clock stops being advanced past this instant (ms)
MaxFrames == 3      \* frames dispatched in one session
MainFrames == 1     \* frames dispatched in the run of main() (the first lookup)

\* Time that passes between two operations of the caller (arrival patterns).
IdleGaps == {50, 150}
\* How long an HTTP request takes from issue to response.
RequestDurations == {0, 50, 150}
\* By how much time.sleep() oversleeps.
SleepOvershoots == {0, 50}

(***************************************************************************)
(* KalshiHttpClient: the two client instances the program builds.          *)
(***************************************************************************)
Instances == {"client", "ws_http"}

THRESHOLD_IN_MILLISECONDS == 100

\* rate_limit, line 118: now - self.last_api_call < timedelta(microseconds=...)
NeedsSleep_Inverted(nowT, last) == nowT - last > THRESHOLD_IN_MILLISECONDS

NeedsSleep(nowT, last) == nowT - last < THRESHOLD_IN_MILLISECONDS

\* rate_limit, lines 117 and 119: time.sleep(threshold_in_seconds) returns
\* no sooner than THRESHOLD_IN_MILLISECONDS / 1000 seconds later.
SleepUntil_Unscaled(nowT, overshoot) == nowT + (THRESHOLD_IN_MILLISECONDS \div 1000) + overshoot

SleepUntil(nowT, overshoot) == nowT + THRESHOLD_IN_MILLISECONDS + overshoot

\* rate_limit: the instant it returns, which it stores in last_api_call
\* (line 120) and at which the caller issues the request.
rate_limit(nowT, last, overshoot) ==
    IF NeedsSleep(nowT, last) THEN SleepUntil(nowT, overshoot) ELSE nowT

\* requests.Response.raise_for_status, called on line 136: raises HTTPError
\* for the 4xx and 5xx statuses only.
raise_for_status(status) == 400 <= status /\ status < 600

\* raise_if_bad_response: TRUE when it raises.
raise_if_bad_response(status) ==
    /\ status \notin 200..298        \* not in range(200, 299)
    /\ raise_for_status(status)

\* What the server (or the network) answers to one request.
Statuses == {199, 200, 298, 299, 304, 404, 500}

Responses ==
    [neterr : {FALSE}, status : Statuses, json : BOOLEAN]
        \cup {[neterr |-> TRUE, status |-> 0, json |-> FALSE]}

\* get / post / delete after rate_limit: the request, raise_if_bad_response,
\* response.json(). "json" is a return of the parsed body; the others raise.
call_outcome(resp) ==
    IF resp.neterr THEN "ConnectionError"
    ELSE IF raise_if_bad_response(resp.status) THEN "HTTPError"
    ELSE IF ~resp.json THEN "JSONDecodeError"
    ELSE "json"

NoResult == [resp |-> [neterr |-> FALSE, status |-> 0, json |-> FALSE], outcome |-> "none"]

\* One whole transport call of instance c: rate_limit, the request, the result.
transport_call(c, method, overshoot, dur, resp) ==
    LET issued == rate_limit(now, last_api_call[c], overshoot)
        done == issued + dur
    IN  /\ Len(starts[c]) < MaxCalls
        /\ done <= MaxTime
        /\ last_api_call' = [last_api_call EXCEPT ![c] = issued]
        /\ starts' = [starts EXCEPT ![c] = Append(@, issued)]
        /\ ends' = [ends EXCEPT ![c] = Append(@, done)]
        /\ last_result' = [last_result EXCEPT ![c] =
                              [resp |-> resp, outcome |-> call_outcome(resp)]]
        /\ now' = done

post ==
    \E o \in SleepOvershoots, d \in RequestDurations, r \in Responses :
        /\ transport_call("client", "POST", o, d, r)
        /\ UNCHANGED <<sessionVars, filterVars, auxVars>>

get ==
    \E o \in SleepOvershoots, d \in RequestDurations, r \in Responses :
        /\ transport_call("client", "GET", o, d, r)
        /\ UNCHANGED <<sessionVars, filterVars, auxVars>>

delete ==
    \E o \in SleepOvershoots, d \in RequestDurations, r \in Responses :
        /\ transport_call("client", "DELETE", o, d, r)
        /\ UNCHANGED <<sessionVars, filterVars, auxVars>>

\* Time passes while the caller does something else.
Tick ==
    \E g \in IdleGaps :
        /\ now + g <= MaxTime
        /\ now' = now + g
        /\ UNCHANGED <<last_api_call, starts, ends, last_result>>
        /\ UNCHANGED <<sessionVars, filterVars, auxVars>>


(***************************************************************************)
(* KalshiWebSocketClient.on_message: the pure parts of the market filter.  *)
(* JSON values are tagged records; a text is a sequence of characters.     *)
(***************************************************************************)
UpperChars == <<"A", "B", "C", "D", "E", "F", "G", "H", "I", "J", "K", "L", "M",
                "N", "O", "P", "Q", "R", "S", "T", "U", "V", "W", "X", "Y", "Z">>

LowerChars == <<"a", "b", "c", "d", "e", "f", "g", "h", "i", "j", "k", "l", "m",
                "n", "o", "p", "q", "r", "s", "t", "u", "v", "w", "x", "y", "z">>

\* str.lower(), one character.
lower_char(ch) ==
    IF \E i \in 1..Len(UpperChars) : UpperChars[i] = ch
    THEN LowerChars[CHOOSE i \in 1..Len(UpperChars) : UpperChars[i] = ch]
    ELSE ch

\* title.lower(), line 300
lower(s) == [i \in 1..Len(s) |-> lower_char(s[i])]

\* sub in s, line 300
Contains(sub, s) ==
    \E i \in 0..(Len(s) - Len(sub)) : SubSeq(s, i + 1, i + Len(sub)) = sub

KW_packers == <<"p", "a", "c", "k", "e", "r", "s">>
KW_green_bay == <<"g", "r", "e", "e", "n", " ", "b", "a", "y">>

\* line 300: 'packers' in title.lower() or 'green bay' in title.lower()
title_matches(s) ==
    Contains(KW_packers, lower(s)) \/ Contains(KW_green_bay, lower(s))

\* The value under 'title' is [t, s]: absent or null, a number, or a text s.

HORIZON_DAYS == 7

MsPerDay == 24 * 60 * 60 * 1000

MsPerHour == 60 * 60 * 1000

\* The instants a market's end reads as are on the clock, which starts at 0:
\* an hour before the start, 200 ms after it, 3 days on, 200 ms after 7 days
\* on, 8 days on.

\* The value under 'end_datetime': absent or null; a number; a text that is no
\* ISO timestamp; an ISO timestamp, with a UTC offset (aware) or without, that
\* reads as instant `at'.
NullEnd == [t |-> "null", aware |-> FALSE, at |-> 0]

GarbageEnd == [t |-> "str", aware |-> FALSE, at |-> 0]

NumberEnd == [t |-> "num", aware |-> FALSE, at |-> 0]

Aware(at) == [t |-> "iso", aware |-> TRUE, at |-> at]

Naive(at) == [t |-> "iso", aware |-> FALSE, at |-> at]

NullObj == [title |-> [t |-> "null", s |-> <<>>], end_datetime |-> NullEnd]

\* The parsed body of a getMarket response: a falsy value; a truthy value that
\* is no object; a market object, bare or under the key 'market'; an object
\* whose 'market' is not an object.
NoneMarket == [shape |-> "falsy", obj |-> NullObj]

Text(s) == [t |-> "str", s |-> s]

T_PACKERS == Text(<<"P", "A", "C", "K", "E", "R", "S">>)

T_GreenBay == Text(<<"G", "r", "e", "e", "n", " ", "B", "a", "y", " ", "W">>)

T_Weather == Text(<<"W", "e", "a", "t", "h", "e", "r">>)

T_Packer == Text(<<"P", "a", "c", "k", "e", "r">>)

Market(title, end_dt) == [title |-> title, end_datetime |-> end_dt]

\* The market objects a lookup may return.
MarketObjs ==
    { Market(T_PACKERS, NullEnd),
      Market(T_GreenBay, Aware(3 * MsPerDay)),
      Market(T_PACKERS, Aware(200)),
      Market(T_PACKERS, Aware(0 - MsPerHour)),
      Market(T_GreenBay, Aware(8 * MsPerDay)),
      Market(T_PACKERS, Aware(7 * MsPerDay + 200)),
      Market(T_PACKERS, GarbageEnd),
      Market(T_GreenBay, NumberEnd),
      Market(T_PACKERS, Naive(0 - MsPerHour)),
      Market(T_GreenBay, Naive(3 * MsPerDay)),
      Market(T_Weather, Aware(3 * MsPerDay)),
      Market(T_Packer, NullEnd),
      Market(Text(<<>>), NullEnd),
      Market([t |-> "null", s |-> <<>>], Aware(3 * MsPerDay)),
      Market([t |-> "num", s |-> <<>>], NullEnd) }

Payloads ==
    [shape : {"falsy", "nondict", "wrapped_nondict"}, obj : {NullObj}]
        \cup [shape : {"bare", "wrapped"}, obj : MarketObjs]

\* lines 289-292: the lookup, with any exception turned into None.
lookup_Uncaught(outcome, payload) ==
    [raised |-> outcome # "json", market |-> payload]

lookup(outcome, payload) ==
    [raised |-> FALSE, market |-> IF outcome = "json" THEN payload ELSE NoneMarket]

\* line 297: candidate is an object (the bare market or market['market']).
candidate_is_dict(market) == market.shape \in {"bare", "wrapped"}

\* line 298: (candidate.get('title') or '') if isinstance(candidate, dict) else ''
title_of(market) ==
    IF candidate_is_dict(market) /\ market.obj.title.t # "null"
           /\ ~(market.obj.title.t = "str" /\ market.obj.title.s = <<>>)
    THEN market.obj.title
    ELSE [t |-> "str", s |-> <<>>]

\* lines 302-313: the end-time check. A number or a non-ISO text raises inside
\* the try and so does the comparison of a timestamp without offset with the
\* aware now (TypeError); each leaves within_window = True.
within_window(end_dt, nowT) ==
    IF end_dt.t = "null" THEN TRUE
    ELSE IF end_dt.t \in {"num", "str"} THEN TRUE
    ELSE IF ~end_dt.aware THEN TRUE
    ELSE end_dt.at <= nowT + HORIZON_DAYS * MsPerDay /\ end_dt.at >= nowT

\* lines 294-318: what the filter does with the looked-up market at instant
\* nowT: "raise" (title.lower() of a non-text), "found" or "rejected".
filter_market(market, nowT) ==
    IF market.shape = "falsy" THEN "rejected"
    ELSE LET title == title_of(market) IN
         IF title.t # "str" THEN "raise"
         ELSE IF ~title_matches(title.s) THEN "rejected"
         ELSE IF within_window(market.obj.end_datetime, nowT) THEN "found"
         ELSE "rejected"

\* The market identifiers of the model, and the values 'market_id' may hold:
\* an identifier, the empty text, null or absent, a list (unhashable).
IDs == {"A", "B"}

MarketIdValues ==
    [t : {"str"}, v : IDs \cup {""}]
        \cup {[t |-> "null", v |-> ""], [t |-> "list", v |-> ""]}

\* An inbound frame: text that is not JSON; JSON that is no object; an object
\* whose type is not "ticker"; a ticker whose msg is no object; a ticker.
Frames ==
    [kind : {"nonjson", "nonobject", "nonticker", "ticker_nodict"},
     market_id : {[t |-> "null", v |-> ""]}]
        \cup [kind : {"ticker"}, market_id : MarketIdValues]

\* line 287: market_id and market_id not in self._inspected_market_ids
should_inspect_NoDedup(mid, insp) == mid.t = "str" /\ mid.v # ""

should_inspect_RetryFailed(mid, insp) ==
    mid.t = "str" /\ mid.v # "" /\ (mid.v \notin insp \/ mid.v \in failed)

should_inspect(mid, insp) == mid.t = "str" /\ mid.v # "" /\ mid.v \notin insp

\* line 288: self._inspected_market_ids.add(market_id)
inspected_add_Skipped(insp, id) == insp

inspected_add(insp, id) == insp \cup {id}

\* lines 276-288 and 319-321: what on_message does with a frame before any
\* lookup: "return" and "print" leave the state alone, "raise" is an
\* exception that leaves on_message (data.get of a non-object, line 283;
\* hashing a list, line 287), "skip" is a ticker not to inspect, "lookup".
frame_step(message, insp) ==
    IF message.kind = "nonjson" THEN "return"
    ELSE IF message.kind = "nonobject" THEN "raise"
    ELSE IF message.kind \in {"nonticker", "ticker_nodict"} THEN "print"
    ELSE IF message.market_id.t = "list" THEN "raise"
    ELSE IF should_inspect(message.market_id, insp) THEN "lookup"
    ELSE "skip"

NoEnd == [why |-> "none", code |-> 0, cause |-> ""]

\* The callers that may use one client instance at the same time.
Callers == {"t1", "t2"}

\* A caller that is not inside a transport call.
IdleCaller == [at |-> "idle", read |-> 0]

\* No pure function has been applied yet.
NoProbe == [fn |-> "none"]

NoReport == [cb |-> "none", code |-> 0]

\* KalshiBaseClient.__init__, line 40: last_api_call = datetime.now();
\* KalshiWebSocketClient.__init__, lines 224-234.
Init ==
    /\ pc = "idle"
    /\ sock = "none"
    /\ message_id = 1
    /\ sent = <<>>
    /\ inspected = {}
    /\ found = [x \in {} |-> NullObj]
    /\ dispatched = 0
    /\ deliveries = [id \in IDs |-> 0]
    /\ lookups = [id \in IDs |-> 0]
    /\ failed = {}
    /\ should_find = {}
    /\ ended_by = NoEnd
    /\ report = NoReport
    /\ now = 0
    /\ last_api_call = [c \in Instances |-> 0]
    /\ starts = [c \in Instances |-> <<>>]
    /\ ends = [c \in Instances |-> <<>>]
    /\ last_result = [c \in Instances |-> NoResult]
    /\ deadline = FALSE
    /\ inflight = {}
    /\ threads = [th \in Callers |-> IdleCaller]
    /\ probe = NoProbe
    /\ main_pc = "start"

InitHttp == Init

NextHttp == post \/ get \/ delete \/ Tick

SpecHttp == InitHttp /\ [][NextHttp]_vars

(***************************************************************************)
(* What the claims compare the filter with: the match as the design states *)
(* it, on the lookup's outcome and payload at the instant of the check.    *)
(***************************************************************************)
MatchingTitles == {T_PACKERS, T_GreenBay}

StatedWindow(end_dt, nowT) ==
    end_dt.t = "iso" => (nowT <= end_dt.at /\ end_dt.at <= nowT + 7 * MsPerDay)

StatedMatch(outcome, payload, nowT) ==
    /\ outcome = "json"
    /\ payload.shape \in {"bare", "wrapped"}
    /\ payload.obj.title \in MatchingTitles
    /\ StatedWindow(payload.obj.end_datetime, nowT)

(***************************************************************************)
(* KalshiWebSocketClient: the stream session.                              *)
(* pc: "idle", "connecting" (websockets.connect pending), "on_open" (the   *)
(* socket is open, the subscription not yet sent), "recv" (the receive     *)
(* loop), "closed", "errored" (connect() has returned or raised).          *)
(***************************************************************************)
StateOf(p) ==
    CASE p = "idle" -> "Idle"
      [] p = "connecting" -> "Connecting"
      [] p \in {"on_open", "recv"} -> "Open"
      [] p = "closed" -> "Closed"
      [] p = "errored" -> "Errored"

\* Close codes: websockets raises ConnectionClosedOK for 1000 and 1001 and
\* ConnectionClosedError for the others.
OkCloseCodes == {1000, 1001}

ErrorCloseCodes == {1006}

\* The lookups of the stream see a success, a 404 or a network failure.
LookupDurations == {0, 150}

LookupResponses ==
    [neterr : {FALSE}, status : {200, 404}, json : BOOLEAN]
        \cup {[neterr |-> TRUE, status |-> 0, json |-> FALSE]}

\* line 241: leaving `async with websockets.connect(...)` closes the socket.
aexit_Leak(s) == s

aexit(s) == "released"

\* line 237-241: connect() is called; the upgrade request is signed and sent.
connect ==
    /\ pc = "idle"
    /\ pc' = "connecting"
    /\ UNCHANGED <<sock, message_id, sent, ended_by, report>>
    /\ UNCHANGED <<httpVars, filterVars, auxVars>>

\* line 241-242: the upgrade succeeds; self.ws = websocket.
upgrade ==
    /\ pc = "connecting"
    /\ pc' = "on_open"
    /\ sock' = "open"
    /\ UNCHANGED <<message_id, sent, ended_by, report>>
    /\ UNCHANGED <<httpVars, filterVars, auxVars>>

\* line 241: websockets.connect raises; the exception leaves connect().
connect_fails ==
    /\ pc = "connecting"
    /\ pc' = "errored"
    /\ ended_by' = [why |-> "connect_failed", code |-> 0, cause |-> ""]
    /\ report' = [cb |-> "raised", code |-> 0]
    /\ UNCHANGED <<sock, message_id, sent>>
    /\ UNCHANGED <<httpVars, filterVars, auxVars>>

next_message_id_Same(m) == m

\* line 261: self.message_id += 1, after the send.
next_message_id(m) == m + 1

\* lines 246-261: on_open, subscribe_to_tickers: send, then message_id += 1.
subscribe_to_tickers ==
    /\ pc = "on_open"
    /\ sent' = Append(sent, [id |-> message_id, cmd |-> "subscribe", channel |-> "ticker"])
    /\ message_id' = next_message_id(message_id)
    /\ pc' = "recv"
    /\ UNCHANGED <<sock, ended_by, report>>
    /\ UNCHANGED <<httpVars, filterVars, auxVars>>

\* line 260: ws.send raises (the connection is gone); the exception leaves
\* connect() through the `async with', which closes the socket.
send_fails ==
    /\ pc = "on_open"
    /\ pc' = "errored"
    /\ sock' = aexit(sock)
    /\ ended_by' = [why |-> "send_failed", code |-> 0, cause |-> ""]
    /\ report' = [cb |-> "raised", code |-> 0]
    /\ UNCHANGED <<message_id, sent>>
    /\ UNCHANGED <<httpVars, filterVars, auxVars>>

store_found_Alone(fnd, id, obj) == [x \in {id} |-> obj]

\* line 317: self.found_markets[market_id] = candidate
store_found(fnd, id, obj) ==
    [x \in DOMAIN fnd \cup {id} |-> IF x = id THEN obj ELSE fnd[x]]

\* The rest of on_message once a frame's lookup has answered: lines 288-318,
\* and, when an exception leaves on_message, lines 270-271 and the exit of
\* connect().
after_lookup(id, outcome, payload) ==
    LET got == lookup(outcome, payload)
        verdict == IF got.raised THEN "raise" ELSE filter_market(got.market, now')
    IN  /\ inspected' = inspected_add(inspected, id)
        /\ found' = IF verdict = "found"
                    THEN store_found(found, id, got.market.obj)
                    ELSE found
        /\ lookups' = [lookups EXCEPT ![id] = @ + 1]
        /\ failed' = IF outcome # "json" THEN failed \cup {id} ELSE failed
        /\ should_find' = IF lookups[id] = 0 /\ StatedMatch(outcome, payload, now')
                          THEN should_find \cup {id} ELSE should_find
        /\ IF verdict = "raise"
           THEN /\ pc' = "errored"
                /\ sock' = aexit(sock)
                /\ ended_by' = [why |-> "frame", code |-> 0,
                                cause |-> IF got.raised THEN "lookup raised"
                                          ELSE "title is not a text"]
                /\ report' = [cb |-> "on_error", code |-> 0]
           ELSE UNCHANGED <<pc, sock, ended_by, report>>

\* lines 266-267 and 273-321: the receive loop takes one frame and on_message
\* handles it to the end, the synchronous get_market included.
on_message ==
    /\ pc = "recv"
    /\ dispatched < MaxFrames
    /\ \E message \in Frames :
        LET step == frame_step(message, inspected) IN
        /\ dispatched' = dispatched + 1
        /\ deliveries' = IF message.kind = "ticker" /\ message.market_id.v \in IDs
                         THEN [deliveries EXCEPT ![message.market_id.v] = @ + 1]
                         ELSE deliveries
        /\ UNCHANGED <<message_id, sent, auxVars>>
        /\ IF step = "lookup"
           THEN \E o \in SleepOvershoots, d \in LookupDurations, r \in LookupResponses :
                  /\ transport_call("ws_http", "GET", o, d, r)
                  /\ \E payload \in (IF call_outcome(r) = "json"
                                     THEN Payloads ELSE {NoneMarket}) :
                        after_lookup(message.market_id.v, call_outcome(r), payload)
           ELSE /\ UNCHANGED <<httpVars, inspected, found, lookups, failed, should_find>>
                /\ IF step = "raise"
                   THEN /\ pc' = "errored"
                        /\ sock' = aexit(sock)
                        /\ ended_by' = [why |-> "frame", code |-> 0,
                                        cause |-> IF message.kind = "nonobject"
                                                  THEN "frame is not an object"
                                                  ELSE "market_id is a list"]
                        /\ report' = [cb |-> "on_error", code |-> 0]
                   ELSE UNCHANGED <<pc, sock, ended_by, report>>

\* line 266: the remote end closes with 1000 or 1001. The socket's iterator
\* ends on ConnectionClosedOK without raising: the loop is over, handler()
\* returns, no callback runs.
remote_close_ok ==
    /\ pc = "recv"
    /\ \E code \in OkCloseCodes :
        ended_by' = [why |-> "remote_close_ok", code |-> code, cause |-> ""]
    /\ pc' = "closed"
    /\ sock' = aexit(sock)
    /\ UNCHANGED <<message_id, sent, report>>
    /\ UNCHANGED <<httpVars, filterVars, auxVars>>

\* lines 268-269: the connection ends with another code, or is lost:
\* ConnectionClosedError is raised in the loop and on_close runs.
remote_close_error ==
    /\ pc = "recv"
    /\ \E code \in ErrorCloseCodes :
        /\ ended_by' = [why |-> "remote_close_error", code |-> code, cause |-> ""]
        /\ report' = [cb |-> "on_close", code |-> code]
    /\ pc' = "closed"
    /\ sock' = aexit(sock)
    /\ UNCHANGED <<message_id, sent>>
    /\ UNCHANGED <<httpVars, filterVars, auxVars>>

\* src/main.py line 69: asyncio.wait_for cancels connect() at one of its
\* awaits; CancelledError passes `except Exception' and leaves connect().
cancel ==
    /\ pc \in {"connecting", "on_open", "recv"}
    /\ pc' = "closed"
    /\ sock' = IF sock = "open" THEN aexit(sock) ELSE sock
    /\ ended_by' = [why |-> "cancel", code |-> 0, cause |-> ""]
    /\ UNCHANGED <<message_id, sent, report>>
    /\ UNCHANGED <<httpVars, filterVars, auxVars>>

\* How long the loop may wait for the next frame.
FrameGaps == {150}

\* line 266: time passes while the loop awaits the next frame.
wait ==
    /\ pc = "recv"
    /\ \E g \in FrameGaps :
        /\ now + g <= MaxTime
        /\ now' = now + g
    /\ UNCHANGED <<last_api_call, starts, ends, last_result>>
    /\ UNCHANGED <<sessionVars, filterVars, auxVars>>

Next ==
    \/ connect \/ upgrade \/ connect_fails \/ subscribe_to_tickers \/ send_fails
    \/ on_message \/ remote_close_ok \/ remote_close_error \/ cancel \/ wait

Spec == Init /\ [][Next]_vars

(***************************************************************************)
(* Claims about the transport, checked under SpecHttp.                     *)
(***************************************************************************)

\* C4: on one client instance, the starts of any two consecutive transport
\* calls (the instants rate_limit returned) are at least 100 ms apart,
\* whatever the arrival times, the first call after construction included.
C4_ConsecutiveStartsSpaced ==
    \A c \in Instances : \A i \in 2..Len(starts[c]) :
        starts[c][i] - starts[c][i - 1] >= THRESHOLD_IN_MILLISECONDS

\* C4's case: three calls, the first one right after construction (it slept),
\* and two consecutive starts exactly the minimum interval apart.
C4_Witness ==
    /\ Len(starts["client"]) >= 3
    /\ starts["client"][1] = THRESHOLD_IN_MILLISECONDS
    /\ \E i \in 2..Len(starts["client"]) :
           starts["client"][i] - starts["client"][i - 1] = THRESHOLD_IN_MILLISECONDS

\* C5 as stated: every call is issued at least 100 ms after the previous call
\* of the instance completed (its response was returned).
C5_SpacedFromCompletion ==
    \A c \in Instances : \A i \in 2..Len(starts[c]) :
        starts[c][i] - ends[c][i - 1] >= THRESHOLD_IN_MILLISECONDS

\* C5 as amended: every call is issued at least 100 ms after the previous call
\* of the instance was issued, and not before that call completed; the
\* spacing is measured from the previous issue, not from its completion.
C5_SpacedFromIssue ==
    \A c \in Instances : \A i \in 2..Len(starts[c]) :
        /\ starts[c][i] >= starts[c][i - 1] + THRESHOLD_IN_MILLISECONDS
        /\ starts[c][i] >= ends[c][i - 1]

\* C5's case: a call issued less than 100 ms after the previous one completed.
C5_Witness ==
    \E i \in 2..Len(starts["client"]) :
        starts["client"][i] - ends["client"][i - 1] < THRESHOLD_IN_MILLISECONDS

\* C6 as stated: a transport call returns the parsed body only for a status in
\* [200, 299), and for every other status it fails with the HTTP error.
C6_StatusDecidesResult ==
    \A c \in Instances :
        LET r == last_result[c] IN
        (r.outcome # "none" /\ ~r.resp.neterr) =>
            /\ r.outcome = "json" => r.resp.status \in 200..298
            /\ (r.resp.status \in 200..298 /\ r.resp.json) => r.outcome = "json"
            /\ r.resp.status \notin 200..298 => r.outcome = "HTTPError"

(***************************************************************************)
(* Claims about the stream session and its filter, checked under Spec.     *)
(***************************************************************************)
State == StateOf(pc)

Delivered == {id \in IDs : deliveries[id] > 0}

\* C1: every identifier that is a key of found_markets is in
\* _inspected_market_ids (the converse is not required).
C1_FoundSubsetOfInspected == DOMAIN found \subseteq inspected

\* C1's case: one market found, another inspected and not found.
C1_Witness ==
    /\ DOMAIN found # {}
    /\ \E id \in inspected : id \notin DOMAIN found

\* C2: get_market is called exactly once for an identifier that a dispatched
\* ticker frame carried, however often it is repeated and whatever the first
\* lookup gave, and never for any other identifier.
C2_OneLookupPerIdentifier ==
    \A id \in IDs : lookups[id] = (IF id \in Delivered THEN 1 ELSE 0)

\* C2's case: an identifier delivered again after its lookup failed.
C2_Witness ==
    \E id \in failed : deliveries[id] >= 2 /\ lookups[id] = 1

\* C3 as stated: found_markets holds exactly the delivered identifiers whose
\* lookup succeeded and whose market, bare or under 'market', has a matching
\* title and an end inside [now, now + 7 days] at the first sighting (or no
\* end, or one that cannot be parsed).
C3_FoundIsExactlyTheMatches == DOMAIN found = should_find

\* C7 as stated: no inbound frame and no lookup payload ends an open session.
C7_NoFrameEndsTheSession == ended_by.why # "frame"

\* C8: when get_market raises for a first-sighted identifier the session
\* stays open, the identifier is inspected and not found, found_markets is
\* unchanged and nothing is reported; a failed identifier is never found.
C8_FailedLookupIsNotFatal ==
    /\ [][\A id \in IDs :
            (lookups'[id] = lookups[id] + 1 /\ last_result'["ws_http"].outcome # "json")
                => /\ pc' = "recv"
                   /\ sock' = "open"
                   /\ id \in inspected'
                   /\ found' = found
                   /\ report' = report]_vars
    /\ [](\A id \in failed : id \in inspected /\ id \notin DOMAIN found)

\* C8's case: a lookup failed, and a later frame's lookup succeeded and its
\* market was found, the session still in its receive loop.
C8_Witness ==
    /\ failed # {}
    /\ DOMAIN found # {}
    /\ last_result["ws_http"].outcome = "json"
    /\ pc = "recv"

\* C9 as stated: a clean close by the remote end is reported to the caller
\* through on_close with the close code.
C9_CleanCloseIsReported ==
    ended_by.why = "remote_close_ok"
        => (report.cb = "on_close" /\ report.code = ended_by.code)

AllowedTransitions ==
    { <<"Idle", "Connecting">>, <<"Connecting", "Open">>, <<"Open", "Open">>,
      <<"Open", "Closed">>, <<"Connecting", "Errored">>, <<"Open", "Errored">>,
      <<"Connecting", "Closed">> }

Terminal == {"Closed", "Errored"}

\* C10: the session takes only the listed transitions (Connecting to Closed
\* by cancellation only); Closed and Errored are terminal: from there no
\* frame is dispatched, no command sent, no lookup made, and the socket is
\* not open.
C10_LifecycleAndTerminalStates ==
    /\ [][/\ State' # State => <<State, State'>> \in AllowedTransitions
          /\ (State = "Connecting" /\ State' = "Closed") => ended_by'.why = "cancel"
          /\ State \in Terminal =>
                UNCHANGED <<pc, sock, dispatched, sent, lookups, inspected, found>>]_vars
    /\ [](State \in Terminal => sock # "open")

\* C10's case: a session that dispatched frames and made a lookup has ended,
\* its socket released.
C10_Witness ==
    /\ State \in Terminal
    /\ sock = "released"
    /\ dispatched > 0
    /\ \E id \in IDs : lookups[id] > 0


\* C11: a session whose upgrade succeeded sends one subscribe command for the
\* channel "ticker", while the socket is open and before any frame is
\* dispatched: the receive loop is only entered with that command sent. The
\* first command carries the identifier 1, the counter is one more than the
\* number of commands sent (it is incremented after the send), and it never
\* decreases, so no identifier is used twice.
C11_OneSubscribeBeforeFrames ==
    /\ [](/\ Len(sent) <= 1
          /\ \A i \in 1..Len(sent) :
                /\ sent[i].cmd = "subscribe"
                /\ sent[i].channel = "ticker"
                /\ sent[i].id = i
          /\ message_id = Len(sent) + 1
          /\ (pc = "recv" \/ dispatched > 0) => Len(sent) = 1
          /\ Len(sent) > 0 => sock # "none")
    /\ [][/\ message_id' >= message_id
          /\ sent' # sent => /\ sock = "open"
                             /\ dispatched = 0
                             /\ Len(sent') = Len(sent) + 1
                             /\ sent'[Len(sent')].id = message_id
                             /\ message_id' = message_id + 1]_vars

\* C11's case: the subscription was sent with identifier 1 and frames were
\* dispatched after it.
C11_Witness ==
    /\ pc = "recv"
    /\ Len(sent) = 1
    /\ sent[1].id = 1
    /\ message_id = 2
    /\ dispatched >= 2


(***************************************************************************)
(* The receive loop with the lookup in two steps. get_market is a blocking *)
(* requests.get inside the coroutine: from the request to the response the *)
(* event loop runs nothing else, the timeout callback of asyncio.wait_for  *)
(* included. `inflight' holds the identifier being looked up; the session  *)
(* stays at pc = "recv".                                                   *)
(***************************************************************************)

SlowestLookup == CHOOSE d \in LookupDurations : \A e \in LookupDurations : e <= d

\* rate_limit and the sending of the request: lines 150-152. The guard on
\* MaxTime leaves room for the slowest response.
request_issue(c, overshoot) ==
    LET issued == rate_limit(now, last_api_call[c], overshoot)
    IN  /\ Len(starts[c]) < MaxCalls
        /\ issued + SlowestLookup <= MaxTime
        /\ last_api_call' = [last_api_call EXCEPT ![c] = issued]
        /\ starts' = [starts EXCEPT ![c] = Append(@, issued)]
        /\ now' = issued
        /\ UNCHANGED <<ends, last_result>>

\* The response arrives: lines 152-158.
request_return(c, dur, resp) ==
    /\ ends' = [ends EXCEPT ![c] = Append(@, now + dur)]
    /\ last_result' = [last_result EXCEPT ![c] =
                          [resp |-> resp, outcome |-> call_outcome(resp)]]
    /\ now' = now + dur
    /\ UNCHANGED <<last_api_call, starts>>

loop_takes_frame_Unawaited(p, blocked) == p = "recv"

\* lines 266-267: `await self.on_message(message)': the loop asks the socket
\* for the next frame only once on_message has returned.
loop_takes_frame(p, blocked) == p = "recv" /\ blocked = {}

\* lines 266-267 and 273-290: the loop takes a frame and on_message handles
\* it, up to the end or up to the request of get_market.
take_frame ==
    /\ loop_takes_frame(pc, inflight)
    /\ dispatched < MaxFrames
    /\ \E message \in Frames :
        LET step == frame_step(message, inspected) IN
        /\ dispatched' = dispatched + 1
        /\ deliveries' = IF message.kind = "ticker" /\ message.market_id.v \in IDs
                         THEN [deliveries EXCEPT ![message.market_id.v] = @ + 1]
                         ELSE deliveries
        /\ UNCHANGED <<message_id, sent, deadline, threads, probe, main_pc>>
        /\ UNCHANGED <<found, lookups, failed, should_find>>
        /\ IF step = "lookup"
           THEN /\ \E o \in SleepOvershoots : request_issue("ws_http", o)
                /\ inspected' = inspected_add(inspected, message.market_id.v)
                /\ inflight' = inflight \cup {message.market_id.v}
                /\ UNCHANGED <<pc, sock, ended_by, report>>
           ELSE /\ UNCHANGED <<httpVars, inspected, inflight>>
                /\ IF step = "raise"
                   THEN /\ pc' = "errored"
                        /\ sock' = aexit(sock)
                        /\ ended_by' = [why |-> "frame", code |-> 0,
                                        cause |-> IF message.kind = "nonobject"
                                                  THEN "frame is not an object"
                                                  ELSE "market_id is a list"]
                        /\ report' = [cb |-> "on_error", code |-> 0]
                   ELSE UNCHANGED <<pc, sock, ended_by, report>>

\* lines 290-318: the response of the lookup arrives and on_message goes on
\* to its end. Nothing in lines 149-158 bounds the wait for the response.
lookup_returns ==
    /\ pc = "recv"
    /\ \E id \in inflight, d \in LookupDurations, r \in LookupResponses :
        /\ request_return("ws_http", d, r)
        /\ \E payload \in (IF call_outcome(r) = "json"
                            THEN Payloads ELSE {NoneMarket}) :
              after_lookup(id, call_outcome(r), payload)
        /\ inflight' = inflight \ {id}
    /\ UNCHANGED <<message_id, sent, dispatched, deliveries>>
    /\ UNCHANGED <<deadline, threads, probe, main_pc>>

\* The remote end closes; the loop sees it when it awaits the socket.
loop_close_ok == inflight = {} /\ remote_close_ok

loop_close_error == inflight = {} /\ remote_close_error

\* src/main.py lines 67-69: the RUN_SECONDS of asyncio.wait_for are over
\* while on_message is blocked in a lookup. This is the wall clock: it runs
\* whatever the coroutine is doing, but the timeout callback has to wait for
\* the event loop.
deadline_expires ==
    /\ ~deadline
    /\ pc = "recv"
    /\ inflight # {}
    /\ deadline' = TRUE
    /\ UNCHANGED <<httpVars, sessionVars, filterVars>>
    /\ UNCHANGED <<inflight, threads, probe, main_pc>>

\* src/main.py line 69: the deadline expires while connect() is suspended at
\* an await: the event loop runs the timeout callback at once, which cancels
\* connect() there.
timely_cancel == ~deadline /\ inflight = {} /\ cancel

\* src/main.py line 69: the deadline expired during a lookup; the event loop
\* runs the timeout callback once on_message has returned and the loop
\* awaits the socket.
late_cancel == deadline /\ inflight = {} /\ cancel

NextLoop ==
    \/ connect \/ upgrade \/ connect_fails \/ subscribe_to_tickers \/ send_fails
    \/ take_frame \/ lookup_returns \/ loop_close_ok \/ loop_close_error
    \/ deadline_expires \/ timely_cancel \/ late_cancel

SpecLoop == Init /\ [][NextLoop]_vars

\* The event loop runs a due callback as soon as the running coroutine
\* yields; no such guarantee exists for the server's response.
SpecLoopFair == SpecLoop /\ WF_vars(late_cancel)

\* C12 as stated: once the deadline of wait_for has expired, in whatever
\* state of the session (a lookup in flight included), the session
\* eventually has ended with its socket released (Closed, or Errored when it
\* ended by itself before the cancellation was delivered); no frame is
\* dispatched in a session that has ended; last_api_call of the stream's
\* client is the instant of its last issued call.
C12_CancellationCloses ==
    /\ deadline ~> (State \in Terminal /\ sock # "open")
    /\ [][(State \in Terminal) => dispatched' = dispatched]_vars
    /\ [](ended_by.why = "cancel" => (State = "Closed" /\ sock # "open"))
    /\ [](Len(starts["ws_http"]) > 0 =>
             last_api_call["ws_http"] = starts["ws_http"][Len(starts["ws_http"])])

\* C16: frames are dispatched one at a time: at most one lookup is in flight;
\* a frame is only taken from the socket when no lookup is in flight and
\* every request issued for an earlier frame has been answered and counted;
\* the identifier being looked up is already in the inspected set.
C16_OneFrameAtATime ==
    /\ [](/\ Cardinality(inflight) <= 1
          /\ inflight \subseteq inspected
          /\ Len(starts["ws_http"]) = Len(ends["ws_http"]) + Cardinality(inflight)
          /\ Len(ends["ws_http"]) = lookups["A"] + lookups["B"])
    /\ [][dispatched' # dispatched =>
             /\ dispatched' = dispatched + 1
             /\ inflight = {}
             /\ Len(starts["ws_http"]) = Len(ends["ws_http"])]_vars

\* C16's case: a frame's lookup is in flight after an earlier frame's lookup
\* was answered and its market stored.
C16_Witness ==
    /\ inflight # {}
    /\ dispatched >= 2
    /\ DOMAIN found # {}
    /\ Len(ends["ws_http"]) >= 1

(***************************************************************************)
(* Concurrent callers of one KalshiHttpClient (the instance "client"):     *)
(* each caller runs get/post/delete on its own thread. rate_limit holds no *)
(* lock, so its statements interleave: line 115 reads the clock, line 118  *)
(* reads last_api_call and compares, line 119 sleeps, line 120 writes      *)
(* last_api_call, and the request follows.                                 *)
(* threads[th].at is "idle", "compare", "sleep" or "write";                *)
(* threads[th].read is the clock read on line 115, then the wake-up time.  *)
(***************************************************************************)

\* line 115: now = datetime.now().
th_read_clock(th) ==
    /\ threads[th].at = "idle"
    /\ Len(starts["client"]) + Cardinality({o \in Callers : threads[o].at # "idle"}) < MaxCalls
    /\ threads' = [threads EXCEPT ![th] = [at |-> "compare", read |-> now]]
    /\ UNCHANGED <<httpVars, sessionVars, filterVars>>
    /\ UNCHANGED <<deadline, inflight, probe, main_pc>>

\* line 118: the comparison with self.last_api_call; line 119: time.sleep
\* starts when the comparison says the call comes too soon.
th_compare(th) ==
    /\ threads[th].at = "compare"
    /\ \E o \in SleepOvershoots :
        threads' = [threads EXCEPT ![th] =
            IF NeedsSleep(threads[th].read, last_api_call["client"])
            THEN [at |-> "sleep", read |-> SleepUntil(now, o)]
            ELSE [at |-> "write", read |-> threads[th].read]]
    /\ UNCHANGED <<httpVars, sessionVars, filterVars>>
    /\ UNCHANGED <<deadline, inflight, probe, main_pc>>

\* line 119: time.sleep returns, at its wake-up time or later.
th_wake(th) ==
    /\ threads[th].at = "sleep"
    /\ now' = IF now < threads[th].read THEN threads[th].read ELSE now
    /\ now' <= MaxTime
    /\ threads' = [threads EXCEPT ![th] = [at |-> "write", read |-> now']]
    /\ UNCHANGED <<last_api_call, starts, ends, last_result>>
    /\ UNCHANGED <<sessionVars, filterVars>>
    /\ UNCHANGED <<deadline, inflight, probe, main_pc>>

\* line 120: self.last_api_call = datetime.now(); rate_limit returns and the
\* request is issued (lines 141, 152, 163).
th_write(th) ==
    /\ threads[th].at = "write"
    /\ last_api_call' = [last_api_call EXCEPT !["client"] = now]
    /\ starts' = [starts EXCEPT !["client"] = Append(@, now)]
    /\ threads' = [threads EXCEPT ![th] = IdleCaller]
    /\ UNCHANGED <<now, ends, last_result>>
    /\ UNCHANGED <<sessionVars, filterVars>>
    /\ UNCHANGED <<deadline, inflight, probe, main_pc>>

read_clock == \E th \in Callers : th_read_clock(th)

compare == \E th \in Callers : th_compare(th)

wake == \E th \in Callers : th_wake(th)

write == \E th \in Callers : th_write(th)

NextConc == read_clock \/ compare \/ wake \/ write \/ Tick

SpecConc == Init /\ [][NextConc]_vars

\* C13 as stated: with callers running transport calls concurrently on one
\* client instance, any two calls issued one after the other on that
\* instance are at least 100 ms apart.
C13_ConcurrentCallsSpaced ==
    \A i \in 2..Len(starts["client"]) :
        starts["client"][i] - starts["client"][i - 1] >= THRESHOLD_IN_MILLISECONDS

(***************************************************************************)
(* The pure functions, applied to inputs drawn from bounded sets: the      *)
(* end-time check of on_message and KalshiBaseClient.request_headers.      *)
(* `probe' holds the inputs and the result of the last application.        *)
(***************************************************************************)

\* The instants at which the end-time check is made.
CheckInstants == {0, 200, MsPerHour}

\* The end of the market, relative to the instant of the check.
EndOffsets == {0 - MsPerHour, 0 - 1, 0, 1, 3 * MsPerDay, HORIZON_DAYS * MsPerDay - 1,
               HORIZON_DAYS * MsPerDay, HORIZON_DAYS * MsPerDay + 1, 8 * MsPerDay}

\* lines 302-313 applied to one end_datetime at one instant.
check_window ==
    \E nowT \in CheckInstants :
    \E end_dt \in {NullEnd, GarbageEnd, NumberEnd}
                  \cup {Aware(nowT + off) : off \in EndOffsets}
                  \cup {Naive(nowT + off) : off \in EndOffsets} :
        /\ probe' = [fn |-> "within_window", end_dt |-> end_dt, nowT |-> nowT,
                     result |-> within_window(end_dt, nowT)]
        /\ UNCHANGED <<httpVars, sessionVars, filterVars>>
        /\ UNCHANGED <<deadline, inflight, threads, main_pc>>

DigitChars == <<"0", "1", "2", "3", "4", "5", "6", "7", "8", "9">>

\* line 54: str() of a non-negative integer, its decimal digits.
RECURSIVE str(_)
str(n) ==
    IF n < 10 THEN <<DigitChars[n + 1]>>
    ELSE str(n \div 10) \o <<DigitChars[(n % 10) + 1]>>

\* str.split(sep): the parts of s between the occurrences of sep.
RECURSIVE split(_, _)
split(s, sep) ==
    IF \A i \in 1..Len(s) : s[i] # sep THEN <<s>>
    ELSE LET k == CHOOSE i \in 1..Len(s) :
                      s[i] = sep /\ \A j \in 1..(i - 1) : s[j] # sep
         IN  <<SubSeq(s, 1, k - 1)>> \o split(SubSeq(s, k + 1, Len(s)), sep)

signed_path_Whole(path) == path

\* lines 57 and 59: path_parts = path.split('?'); path_parts[0] is signed.
signed_path(path) == split(path, "?")[1]

\* lines 53-80: the message handed to sign_pss_text and the timestamp header;
\* both use the one timestamp_str of line 54.
request_headers(method, path, ms) ==
    LET timestamp_str == str(ms)
        msg_string == timestamp_str \o method \o signed_path(path)
    IN  [msg_string |-> msg_string, timestamp |-> timestamp_str]

Methods == {<<"G", "E", "T">>, <<"P", "O", "S", "T">>, <<"D", "E", "L", "E", "T", "E">>}

\* Paths without a query string, and the query strings appended to them.
Paths == {<<>>, <<"/", "m">>, <<"/", "m", "/", "X", "1">>}

Queries == {<<>>, <<"a", "=", "1">>, <<"a", "=", "1", "?", "b">>, <<"?">>}

\* What int(time.time() * 1000) may read, line 53.
Stamps == {0, 7, 1700, 1234567}

\* request_headers applied to a path and to the same path with a query.
sign ==
    \E method \in Methods, path \in Paths, query \in Queries, ms \in Stamps :
        /\ probe' = [fn |-> "request_headers", method |-> method, path |-> path,
                     query |-> query, ms |-> ms,
                     plain |-> request_headers(method, path, ms),
                     with_query |-> request_headers(method, path \o <<"?">> \o query, ms)]
        /\ UNCHANGED <<httpVars, sessionVars, filterVars>>
        /\ UNCHANGED <<deadline, inflight, threads, main_pc>>

NextPure == check_window \/ sign

SpecPure == Init /\ [][NextPure]_vars

\* C14 as stated: for an end timestamp the parser accepts, with or without
\* a timezone offset, the check passes exactly when now <= end <= now + 7
\* days; it passes when the end timestamp is missing or cannot be parsed.
C14_WindowCheckIsExact ==
    probe.fn = "within_window" =>
        (probe.result <=> StatedWindow(probe.end_dt, probe.nowT))

\* The decimal digits read back as a number.
RECURSIVE DecimalValue(_)
DecimalValue(digits) ==
    IF digits = <<>> THEN 0
    ELSE 10 * DecimalValue(SubSeq(digits, 1, Len(digits) - 1))
         + (CHOOSE d \in 0..9 : DigitChars[d + 1] = digits[Len(digits)])

\* C15: the message signed is timestamp ++ method ++ the path up to its first
\* "?": a path and the same path with a query string give the same message
\* for the same method and timestamp, that message is the timestamp header
\* followed by the method and the bare path, and the header is the decimal
\* writing of the clock reading.
C15_QueryNeverSigned ==
    probe.fn = "request_headers" =>
        /\ probe.with_query.msg_string = probe.plain.msg_string
        /\ probe.with_query.msg_string =
               probe.with_query.timestamp \o probe.method \o probe.path
        /\ probe.with_query.timestamp = probe.plain.timestamp
        /\ DecimalValue(probe.with_query.timestamp) = probe.ms

\* C15's case: a path signed with a query string that itself holds a "?".
C15_Witness ==
    /\ probe.fn = "request_headers"
    /\ probe.path = <<"/", "m">>
    /\ probe.query = <<"a", "=", "1", "?", "b">>
    /\ probe.ms = 1700
    /\ probe.with_query.msg_string = <<"1", "7", "0", "0", "G", "E", "T", "/", "m">>

(***************************************************************************)
(* Further claims about the stream session, checked under Spec.            *)
(***************************************************************************)

\* C17: in every step of a session _inspected_market_ids and found_markets
\* only grow, and the market stored for an identifier is never replaced.
C17_SetsOnlyGrow ==
    [][/\ inspected \subseteq inspected'
       /\ DOMAIN found \subseteq DOMAIN found'
       /\ \A id \in DOMAIN found : found'[id] = found[id]]_vars

\* C17's case: two markets are stored and one of them was delivered again
\* after it was stored.
C17_Witness ==
    /\ Cardinality(DOMAIN found) = 2
    /\ \E id \in DOMAIN found : deliveries[id] >= 2

\* C18: the dispatch of a frame that carries no identifier to look up (not
\* JSON, not a ticker, msg not an object, market_id absent or empty) or that
\* carries an identifier already inspected leaves _inspected_market_ids,
\* found_markets, message_id and last_api_call unchanged and issues no HTTP
\* call.
C18_OtherFramesChangeNothing ==
    [][(/\ dispatched' = dispatched + 1
        /\ \A id \in IDs : deliveries'[id] # deliveries[id] => id \in inspected)
       => /\ inspected' = inspected
          /\ found' = found
          /\ message_id' = message_id
          /\ last_api_call' = last_api_call
          /\ starts' = starts
          /\ lookups' = lookups]_vars

\* C18's case: after a market was looked up and stored, a frame without an
\* identifier and a second frame for the stored market were dispatched, and
\* the session is still receiving.
C18_Witness ==
    /\ pc = "recv"
    /\ dispatched = 3
    /\ deliveries["A"] = 2
    /\ deliveries["B"] = 0
    /\ lookups["A"] = 1
    /\ "A" \in DOMAIN found

\* C20: nothing retries. Every lookup is one acquire of the rate limiter and
\* one request (as many issues as completions as lookups); an identifier
\* whose lookup failed has been looked up once, is not in found_markets, and
\* no later step looks it up again.
C20_NoRetry ==
    /\ [](/\ Len(starts["ws_http"]) = lookups["A"] + lookups["B"]
          /\ Len(ends["ws_http"]) = Len(starts["ws_http"])
          /\ \A id \in failed :
                /\ lookups[id] = 1
                /\ id \in inspected
                /\ id \notin DOMAIN found)
    /\ [][\A id \in failed : lookups'[id] = lookups[id]]_vars

\* C20's case: a lookup failed with an HTTP error, the only request of the
\* session, and two more frames for the same market were dispatched.
C20_Witness ==
    \E id \in failed :
        /\ deliveries[id] = 3
        /\ Len(starts["ws_http"]) = 1
        /\ last_result["ws_http"].outcome = "HTTPError"

(***************************************************************************)
(* src/main.py: the one-shot calls on `client', then the stream, whose     *)
(* lookups go through the client built by KalshiWebSocketClient.__init__   *)
(* (clients.py line 230). main_pc: "start" (client built, line 26),        *)
(* "balance_done", "ws_built", "stream", "crashed".                        *)
(***************************************************************************)

\* main.py line 33: client.get_balance(); an exception is not caught and
\* ends the program.
main_get_balance ==
    /\ main_pc = "start"
    /\ \E o \in SleepOvershoots, d \in RequestDurations, r \in Responses :
        /\ transport_call("client", "GET", o, d, r)
        /\ main_pc' = IF call_outcome(r) = "json" THEN "balance_done" ELSE "crashed"
    /\ UNCHANGED <<sessionVars, filterVars>>
    /\ UNCHANGED <<deadline, inflight, threads, probe>>

\* main.py lines 37-41: KalshiWebSocketClient(...) builds its own
\* KalshiHttpClient, whose last_api_call is the instant of construction
\* (clients.py lines 230 and 40).
main_ws_client ==
    /\ main_pc = "balance_done"
    /\ main_pc' = "ws_built"
    /\ last_api_call' = [last_api_call EXCEPT !["ws_http"] = now]
    /\ UNCHANGED <<now, starts, ends, last_result>>
    /\ UNCHANGED <<sessionVars, filterVars>>
    /\ UNCHANGED <<deadline, inflight, threads, probe>>

\* main.py lines 50-60: client.list_markets(...), any exception caught.
main_list_markets ==
    /\ main_pc = "ws_built"
    /\ \E o \in SleepOvershoots, d \in RequestDurations, r \in Responses :
        transport_call("client", "GET", o, d, r)
    /\ main_pc' = "stream"
    /\ UNCHANGED <<sessionVars, filterVars>>
    /\ UNCHANGED <<deadline, inflight, threads, probe>>

\* main.py line 69: ws_client.connect() runs, up to its first frames.
main_connect == main_pc = "stream" /\ connect

main_upgrade == main_pc = "stream" /\ upgrade

main_subscribe == main_pc = "stream" /\ subscribe_to_tickers

main_on_message == main_pc = "stream" /\ dispatched < MainFrames /\ on_message

NextMain ==
    \/ main_get_balance \/ main_ws_client \/ main_list_markets
    \/ main_connect \/ main_upgrade \/ main_subscribe \/ main_on_message

SpecMain == Init /\ [][NextMain]_vars

\* C19 as stated: any two REST calls of the process, whether one-shot calls
\* or lookups of the receive loop, are issued at least 100 ms apart.
C19_AllCallsOfTheProcessSpaced ==
    \A c \in Instances, d \in Instances :
    \A i \in 1..Len(starts[c]), j \in 1..Len(starts[d]) :
        (<<c, i>> # <<d, j>> /\ starts[c][i] <= starts[d][j]) =>
            starts[d][j] - starts[c][i] >= THRESHOLD_IN_MILLISECONDS

=============================================================================
